---- MODULE Spec2Model ----
(***************************************************************************)
(* A model of the minrisc RV32I core: the instruction decoder              *)
(* (src/src/decode) and the machine (src/src/emu).                         *)
(*                                                                         *)
(* A u32 is modelled as the pair <<hi, lo>> of its two 16-bit halves, its  *)
(* value being hi * 2^16 + lo, because the model checker's integers stop   *)
(* at 2^31 - 1.  Every operation on a u32 below is the 32-bit operation of *)
(* the source carried out on the two halves.                               *)
(***************************************************************************)
EXTENDS Integers, Naturals, Sequences, FiniteSets, TLC

VARIABLES
    pc,      \* Machine.pc
    iregs,   \* Machine.iregs
    memory,  \* Machine.memory
    last,    \* the last call made on the machine (or on the decoder) and its result
    prev,    \* the machine before that call, and the call before it
    nops,    \* the number of calls made so far
    arg      \* the command-line argument of examples/fib.rs

vars == <<pc, iregs, memory, last, prev, nops, arg>>

-----------------------------------------------------------------------------
(* 32-bit unsigned arithmetic on <<hi, lo>> pairs.                          *)

Half == 2 ^ 16

U32(hi, lo) == <<hi, lo>>

Zero == U32(0, 0)

AllOnes == U32(\hFFFF, \hFFFF)

\* A small natural number (below 2^31) as a u32.
FromNat(n) == U32(n \div Half, n % Half)

Pow2(k) == 2 ^ k

RECURSIVE And16(_, _)
And16(a, b) ==
    IF a = 0 \/ b = 0 THEN 0
    ELSE (a % 2) * (b % 2) + 2 * And16(a \div 2, b \div 2)

RECURSIVE Or16(_, _)
Or16(a, b) ==
    IF a = 0 THEN b
    ELSE IF b = 0 THEN a
    ELSE (IF a % 2 = 1 \/ b % 2 = 1 THEN 1 ELSE 0) + 2 * Or16(a \div 2, b \div 2)

RECURSIVE Xor16(_, _)
Xor16(a, b) ==
    IF a = 0 THEN b
    ELSE IF b = 0 THEN a
    ELSE ((a + b) % 2) + 2 * Xor16(a \div 2, b \div 2)

\* x & y, x | y, x ^ y, !x on u32
BitAnd(x, y) == U32(And16(x[1], y[1]), And16(x[2], y[2]))

BitOr(x, y) == U32(Or16(x[1], y[1]), Or16(x[2], y[2]))

BitXor(x, y) == U32(Xor16(x[1], y[1]), Xor16(x[2], y[2]))

BitNot(x) == U32(\hFFFF - x[1], \hFFFF - x[2])

\* x << k for 0 <= k < 32: bits shifted past bit 31 are dropped
Shl(x, k) ==
    IF k >= 16
    THEN U32((x[2] * Pow2(k - 16)) % Half, 0)
    ELSE U32((x[1] * Pow2(k) + x[2] \div Pow2(16 - k)) % Half,
             (x[2] * Pow2(k)) % Half)

\* x >> k (logical) for 0 <= k < 32
Shr(x, k) ==
    IF k >= 16
    THEN U32(0, x[1] \div Pow2(k - 16))
    ELSE U32(x[1] \div Pow2(k),
             (x[1] % Pow2(k)) * Pow2(16 - k) + x[2] \div Pow2(k))

\* bit 31, the sign of the value read as an i32
IsNeg(x) == x[1] >= 32768

\* ((x as i32) >> k) as u32 for 0 <= k < 32
Sar(x, k) ==
    IF IsNeg(x) THEN BitOr(Shr(x, k), BitNot(Shr(AllOnes, k))) ELSE Shr(x, k)

\* x.wrapping_add(y)
wrapping_add(x, y) ==
    LET lo == x[2] + y[2]
        hi == x[1] + y[1] + lo \div Half
    IN  U32(hi % Half, lo % Half)

\* x.wrapping_sub(y)
wrapping_sub(x, y) == wrapping_add(x, wrapping_add(BitNot(y), U32(0, 1)))

\* x.checked_add(n) for a small n: None when the sum leaves 32 bits
checked_add(x, n) ==
    LET lo == x[2] + n
        hi == x[1] + lo \div Half
    IN  IF hi >= Half THEN [some |-> FALSE, val |-> Zero]
        ELSE [some |-> TRUE, val |-> U32(hi, lo % Half)]

\* x < y on u32
LtU(x, y) == x[1] < y[1] \/ (x[1] = y[1] /\ x[2] < y[2])

\* (x as i32) < (y as i32)
LtS(x, y) ==
    IF IsNeg(x) # IsNeg(y) THEN IsNeg(x) ELSE LtU(x, y)

\* (x as usize) < n, for a length n the model can hold
UsizeLt(x, n) == x[1] < 32768 /\ x[1] * Half + x[2] < n

\* x as usize, where the caller has established an in-range value
AsUsize(x) == x[1] * Half + x[2]

\* (x & 0xFF) as u8 and friends
AsU8(x) == x[2] % 256

AsU16(x) == x[2]

-----------------------------------------------------------------------------
(* The decoder: src/src/decode/formats.rs and src/src/decode/mod.rs         *)

OpcodeLoad == 3
OpcodeOpImm == 19
OpcodeAuipc == 23
OpcodeStore == 35
OpcodeOp == 51
OpcodeLui == 55
OpcodeBranch == 99
OpcodeJalr == 103
OpcodeJal == 111
OpcodeSystem == 115

Opcodes ==
    {OpcodeLoad, OpcodeOpImm, OpcodeAuipc, OpcodeStore, OpcodeOp,
     OpcodeLui, OpcodeBranch, OpcodeJalr, OpcodeJal, OpcodeSystem}

Err(e) == [ok |-> FALSE, name |-> e, rd |-> 0, rs1 |-> 0, rs2 |-> 0, imm |-> Zero]

\* a from_inst that looks at six bits of the word instead of seven
from_inst_six_bits(bits) ==
    LET o == AsUsize(BitAnd(bits, U32(0, \b111111)))
    IN  IF o \in Opcodes THEN [ok |-> TRUE, opcode |-> o]
        ELSE [ok |-> FALSE, opcode |-> 0]

\* Opcode::from_inst
from_inst(bits) ==
    LET o == AsUsize(BitAnd(bits, U32(0, \b1111111)))
    IN  IF o \in Opcodes THEN [ok |-> TRUE, opcode |-> o]
        ELSE [ok |-> FALSE, opcode |-> 0]

\* a Reg::new whose bound is off by one
Reg_new_inclusive(n) ==
    IF LtU(n, U32(0, 33)) THEN [ok |-> TRUE, num |-> n[2]]
    ELSE [ok |-> FALSE, num |-> 0]

\* Reg::new
Reg_new(n) ==
    IF LtU(n, U32(0, 32)) THEN [ok |-> TRUE, num |-> n[2]]
    ELSE [ok |-> FALSE, num |-> 0]

\* a reg that keeps six bits of the field instead of five
reg_six_bits(bits) == Reg_new(BitAnd(bits, U32(0, \b111111)))

\* formats::reg
reg(bits) == Reg_new(BitAnd(bits, U32(0, \b11111)))

funct3(bits) == AsU16(BitAnd(Shr(bits, 12), U32(0, \b111)))

\* a funct7 that lands bits 31..25 of the word on bits 10..4
funct7_from_bit_four(bits) == AsU16(BitAnd(Shr(bits, 21), U32(0, \b11111110000)))

funct7(bits) == AsU16(BitAnd(Shr(bits, 22), U32(0, \b1111111000)))

\* for i in i..32 { bits |= 1 << i }; each turn's value is computed (the
\* test on its halves) before the next turn starts
RECURSIVE SetBitsFrom(_, _)
SetBitsFrom(bits, i) ==
    IF i >= 32 THEN bits
    ELSE LET b == BitOr(bits, Shl(U32(0, 1), i))
         IN  IF b[1] < Half /\ b[2] < Half THEN SetBitsFrom(b, i + 1) ELSE b

\* assert!(num_bits > 0) of sign_extend
sign_extend_asserts(num_bits) == num_bits > 0

\* a sign_extend whose loop starts one bit too high
sign_extend_skips_a_bit(bits, num_bits) ==
    IF BitAnd(bits, Shl(U32(0, 1), num_bits - 1)) # Zero
    THEN SetBitsFrom(bits, num_bits + 1)
    ELSE bits

sign_extend(bits, num_bits) ==
    IF BitAnd(bits, Shl(U32(0, 1), num_bits - 1)) # Zero
    THEN SetBitsFrom(bits, num_bits)
    ELSE bits

\* formats::inst: the halfway-decoded instruction
inst(bits, funct, rd, rs1, rs2, imm) ==
    LET o == from_inst(bits)
    IN  IF ~o.ok THEN [ok |-> FALSE, err |-> "BadOpcode", opcode |-> 0, funct |-> 0,
                       rd |-> 0, rs1 |-> 0, rs2 |-> 0, imm |-> Zero]
        ELSE [ok |-> TRUE, err |-> "", opcode |-> o.opcode, funct |-> funct,
              rd |-> rd, rs1 |-> rs1, rs2 |-> rs2, imm |-> imm]

BadReg == [ok |-> FALSE, err |-> "BadRegister", opcode |-> 0, funct |-> 0,
           rd |-> 0, rs1 |-> 0, rs2 |-> 0, imm |-> Zero]

\* a failed assertion: the decoder aborts instead of returning
Aborted == [ok |-> FALSE, err |-> "panic", opcode |-> 0, funct |-> 0,
            rd |-> 0, rs1 |-> 0, rs2 |-> 0, imm |-> Zero]

decode_r(bits) ==
    LET rd == reg(Shr(bits, 7))
        rs1 == reg(Shr(bits, 15))
        rs2 == reg(Shr(bits, 20))
    IN  IF ~rd.ok \/ ~rs1.ok \/ ~rs2.ok THEN BadReg
        ELSE inst(bits, Or16(funct3(bits), funct7(bits)),
                  rd.num, rs1.num, rs2.num, Zero)

decode_i(bits) ==
    LET rd == reg(Shr(bits, 7))
        rs1 == reg(Shr(bits, 15))
    IN  IF ~rd.ok \/ ~rs1.ok THEN BadReg
        ELSE IF ~sign_extend_asserts(12) THEN Aborted
        ELSE inst(bits, funct3(bits), rd.num, rs1.num, 0,
                  sign_extend(Shr(bits, 20), 12))

decode_s(bits) ==
    LET rs1 == reg(Shr(bits, 15))
        rs2 == reg(Shr(bits, 20))
    IN  IF ~rs1.ok \/ ~rs2.ok THEN BadReg
        ELSE IF ~sign_extend_asserts(12) THEN Aborted
        ELSE inst(bits, funct3(bits), 0, rs1.num, rs2.num,
                  sign_extend(BitOr(BitAnd(Shr(bits, 7), U32(0, \b11111)),
                                    BitAnd(Shr(bits, 20), U32(0, \b111111100000))),
                              12))

decode_b(bits) ==
    LET rs1 == reg(Shr(bits, 15))
        rs2 == reg(Shr(bits, 20))
    IN  IF ~rs1.ok \/ ~rs2.ok THEN BadReg
        ELSE IF ~sign_extend_asserts(13) THEN Aborted
        ELSE inst(bits, funct3(bits), 0, rs1.num, rs2.num,
                  sign_extend(
                      BitOr(BitOr(BitAnd(Shr(bits, 7), U32(0, \b11110)),
                                  BitAnd(Shr(bits, 20), U32(0, \b11111100000))),
                            BitOr(BitAnd(Shl(bits, 4), U32(0, \b100000000000)),
                                  BitAnd(Shr(bits, 19), U32(0, \b1000000000000)))),
                      13))

decode_u(bits) ==
    LET rd == reg(Shr(bits, 7))
    IN  IF ~rd.ok THEN BadReg
        ELSE inst(bits, 0, rd.num, 0, 0,
                  BitAnd(bits, BitNot(U32(0, \b111111111111))))

decode_j(bits) ==
    LET rd == reg(Shr(bits, 7))
    IN  IF ~rd.ok THEN BadReg
        ELSE IF ~sign_extend_asserts(21) THEN Aborted
        ELSE inst(bits, 0, rd.num, 0, 0,
                  sign_extend(
                      BitOr(BitOr(BitAnd(bits, U32(\b1111, \b1111000000000000)),
                                  BitAnd(Shr(bits, 9), U32(0, \b100000000000))),
                            BitOr(BitAnd(Shr(bits, 20), U32(0, \b11111111110)),
                                  BitAnd(Shr(bits, 11), U32(\b10000, 0)))),
                      21))

\* instruction!(NAME, inst): the decoded instruction with its operands
Instr(name, i) ==
    [ok |-> TRUE, name |-> name, rd |-> i.rd, rs1 |-> i.rs1, rs2 |-> i.rs2,
     imm |-> i.imm]

NoOperands(name) ==
    [ok |-> TRUE, name |-> name, rd |-> 0, rs1 |-> 0, rs2 |-> 0, imm |-> Zero]

\* a shift-immediate check that leaves bit 11 of the immediate out
ShiftFunct7_six_bits(i) == BitAnd(i.imm, U32(0, \b011111100000))

ShiftFunct7(i) == BitAnd(i.imm, U32(0, \b111111100000))

decode_OpImm(i) ==
    CASE i.funct = 0 -> Instr("ADDI", i)
      [] i.funct = 2 -> Instr("SLTI", i)
      [] i.funct = 3 -> Instr("SLTIU", i)
      [] i.funct = 4 -> Instr("XORI", i)
      [] i.funct = 6 -> Instr("ORI", i)
      [] i.funct = 7 -> Instr("ANDI", i)
      [] i.funct = 1 /\ ShiftFunct7(i) = Zero -> Instr("SLLI", i)
      [] i.funct = 5 /\ ShiftFunct7(i) = Zero -> Instr("SRLI", i)
      [] i.funct = 5 /\ ShiftFunct7(i) = U32(0, \b010000000000) -> Instr("SRAI", i)
      [] OTHER -> Err("BadFunct")

decode_Op(i) ==
    CASE i.funct = 0 -> Instr("ADD", i)
      [] i.funct = 5 -> Instr("SRL", i)
      [] i.funct = 1 -> Instr("SLL", i)
      [] i.funct = 2 -> Instr("SLT", i)
      [] i.funct = 3 -> Instr("SLTU", i)
      [] i.funct = 4 -> Instr("XOR", i)
      [] i.funct = 6 -> Instr("OR", i)
      [] i.funct = 7 -> Instr("AND", i)
      [] i.funct = \b0100000000 -> Instr("SUB", i)
      [] i.funct = \b0100000101 -> Instr("SRA", i)
      [] OTHER -> Err("BadFunct")

decode_Branch(i) ==
    CASE i.funct = 0 -> Instr("BEQ", i)
      [] i.funct = 1 -> Instr("BNE", i)
      [] i.funct = 4 -> Instr("BLT", i)
      [] i.funct = 5 -> Instr("BGE", i)
      [] i.funct = 6 -> Instr("BLTU", i)
      [] i.funct = 7 -> Instr("BGEU", i)
      [] OTHER -> Err("BadFunct")

decode_Load(i) ==
    CASE i.funct = 0 -> Instr("LB", i)
      [] i.funct = 1 -> Instr("LH", i)
      [] i.funct = 2 -> Instr("LW", i)
      [] i.funct = 4 -> Instr("LBU", i)
      [] i.funct = 5 -> Instr("LHU", i)
      [] OTHER -> Err("BadFunct")

decode_Store(i) ==
    CASE i.funct = 0 -> Instr("SB", i)
      [] i.funct = 1 -> Instr("SH", i)
      [] i.funct = 2 -> Instr("SW", i)
      [] OTHER -> Err("BadFunct")

\* a System arm with the immediates of ECALL and EBREAK exchanged
decode_System_swapped(i) ==
    IF i.funct = 0 /\ i.rs1 = 0 /\ i.rd = 0
    THEN CASE i.imm = U32(0, 0) -> NoOperands("EBREAK")
           [] i.imm = U32(0, 1) -> NoOperands("ECALL")
           [] OTHER -> Err("BadFunct")
    ELSE Err("BadFunct")

decode_System(i) ==
    IF i.funct = 0 /\ i.rs1 = 0 /\ i.rd = 0
    THEN CASE i.imm = U32(0, 0) -> NoOperands("ECALL")
           [] i.imm = U32(0, 1) -> NoOperands("EBREAK")
           [] OTHER -> Err("BadFunct")
    ELSE Err("BadFunct")

\* a Jalr arm that accepts funct3 = 0 only
decode_Jalr_funct3_checked(i) ==
    IF i.funct = 0 THEN Instr("JALR", i) ELSE Err("BadFunct")

decode_Jalr(i) == Instr("JALR", i)

\* the format decoder each primary opcode dispatches to
Halfway(opcode, bits) ==
    CASE opcode \in {OpcodeOpImm, OpcodeJalr, OpcodeLoad, OpcodeSystem} -> decode_i(bits)
      [] opcode = OpcodeOp -> decode_r(bits)
      [] opcode \in {OpcodeLui, OpcodeAuipc} -> decode_u(bits)
      [] opcode = OpcodeJal -> decode_j(bits)
      [] opcode = OpcodeBranch -> decode_b(bits)
      [] opcode = OpcodeStore -> decode_s(bits)

decode(bits) ==
    LET o == from_inst(bits)
    IN  IF ~o.ok THEN Err("BadOpcode")
        ELSE LET i == Halfway(o.opcode, bits)
             IN  IF ~i.ok THEN Err(i.err)
                 ELSE CASE o.opcode = OpcodeOpImm -> decode_OpImm(i)
                        [] o.opcode = OpcodeOp -> decode_Op(i)
                        [] o.opcode = OpcodeLui -> Instr("LUI", i)
                        [] o.opcode = OpcodeAuipc -> Instr("AUIPC", i)
                        [] o.opcode = OpcodeJal -> Instr("JAL", i)
                        [] o.opcode = OpcodeJalr -> decode_Jalr(i)
                        [] o.opcode = OpcodeBranch -> decode_Branch(i)
                        [] o.opcode = OpcodeLoad -> decode_Load(i)
                        [] o.opcode = OpcodeStore -> decode_Store(i)
                        [] o.opcode = OpcodeSystem -> decode_System(i)

-----------------------------------------------------------------------------
(* The machine: src/src/emu/mod.rs.  A machine value m is the record        *)
(* [pc, iregs, memory]; iregs is indexed 0..30 and memory 0..len-1, as the  *)
(* array and the Vec of the source are.                                     *)

NumIRegs == 31

\* Machine::with_memory
with_memory(size) ==
    [pc |-> Zero,
     iregs |-> [i \in 0..(NumIRegs - 1) |-> Zero],
     memory |-> [i \in 0..(size - 1) |-> 0]]

\* self.memory.len()
MemLen(m) == Cardinality(DOMAIN m.memory)

OutOfBounds == [ok |-> FALSE, val |-> Zero]

load8(m, addr) ==
    IF ~UsizeLt(addr, MemLen(m)) THEN OutOfBounds
    ELSE [ok |-> TRUE, val |-> U32(0, m.memory[AsUsize(addr)])]

\* a load16 that assembles its two bytes in big-endian order
load16_swapped(m, addr) ==
    LET last_addr == checked_add(addr, 1)
    IN  IF last_addr.some /\ UsizeLt(last_addr.val, MemLen(m))
        THEN [ok |-> TRUE,
              val |-> U32(0, Or16(m.memory[AsUsize(wrapping_add(addr, U32(0, 1)))],
                                  (m.memory[AsUsize(addr)] * Pow2(8)) % Half))]
        ELSE OutOfBounds

load16(m, addr) ==
    LET last_addr == checked_add(addr, 1)
    IN  IF last_addr.some /\ UsizeLt(last_addr.val, MemLen(m))
        THEN [ok |-> TRUE,
              val |-> U32(0, Or16(m.memory[AsUsize(addr)],
                                  (m.memory[AsUsize(wrapping_add(addr, U32(0, 1)))] * Pow2(8)) % Half))]
        ELSE OutOfBounds

load32(m, addr) ==
    LET last_addr == checked_add(addr, 3)
        byte(k) == U32(0, m.memory[AsUsize(wrapping_add(addr, U32(0, k)))])
    IN  IF last_addr.some /\ UsizeLt(last_addr.val, MemLen(m))
        THEN [ok |-> TRUE,
              val |-> BitOr(BitOr(byte(0), Shl(byte(1), 8)),
                            BitOr(Shl(byte(2), 16), Shl(byte(3), 24)))]
        ELSE OutOfBounds

\* store8 takes a u8, store16 a u16 and store32 a u32; the value is passed
\* here as a u32 that the caller has already brought into that range.
store8(m, addr, val) ==
    IF ~UsizeLt(addr, MemLen(m)) THEN [ok |-> FALSE, memory |-> m.memory]
    ELSE [ok |-> TRUE,
          memory |-> [m.memory EXCEPT ![AsUsize(addr)] = AsU8(val)]]

\* a store16 that writes its first byte before it checks its last
store16_partial(m, addr, val) ==
    LET last_addr == checked_add(addr, 1)
        low == [m.memory EXCEPT ![AsUsize(addr)] = AsU8(BitAnd(val, U32(0, \hFF)))]
    IN  IF last_addr.some /\ UsizeLt(last_addr.val, MemLen(m))
        THEN [ok |-> TRUE,
              memory |-> [low EXCEPT
                  ![AsUsize(wrapping_add(addr, U32(0, 1)))] =
                      AsU8(BitAnd(Shr(val, 8), U32(0, \hFF)))]]
        ELSE IF UsizeLt(addr, MemLen(m)) THEN [ok |-> FALSE, memory |-> low]
        ELSE [ok |-> FALSE, memory |-> m.memory]

store16(m, addr, val) ==
    LET last_addr == checked_add(addr, 1)
    IN  IF last_addr.some /\ UsizeLt(last_addr.val, MemLen(m))
        THEN [ok |-> TRUE,
              memory |-> [m.memory EXCEPT
                  ![AsUsize(addr)] = AsU8(BitAnd(val, U32(0, \hFF))),
                  ![AsUsize(wrapping_add(addr, U32(0, 1)))] =
                      AsU8(BitAnd(Shr(val, 8), U32(0, \hFF)))]]
        ELSE [ok |-> FALSE, memory |-> m.memory]

\* a store32 that lays its bytes out in big-endian order
store32_big_endian(m, addr, val) ==
    LET last_addr == checked_add(addr, 3)
    IN  IF last_addr.some /\ UsizeLt(last_addr.val, MemLen(m))
        THEN [ok |-> TRUE,
              memory |-> [m.memory EXCEPT
                  ![AsUsize(wrapping_add(addr, U32(0, 3)))] = AsU8(BitAnd(val, U32(0, \hFF))),
                  ![AsUsize(wrapping_add(addr, U32(0, 2)))] =
                      AsU8(BitAnd(Shr(val, 8), U32(0, \hFF))),
                  ![AsUsize(wrapping_add(addr, U32(0, 1)))] =
                      AsU8(BitAnd(Shr(val, 16), U32(0, \hFF))),
                  ![AsUsize(addr)] =
                      AsU8(BitAnd(Shr(val, 24), U32(0, \hFF)))]]
        ELSE [ok |-> FALSE, memory |-> m.memory]

store32(m, addr, val) ==
    LET last_addr == checked_add(addr, 3)
    IN  IF last_addr.some /\ UsizeLt(last_addr.val, MemLen(m))
        THEN [ok |-> TRUE,
              memory |-> [m.memory EXCEPT
                  ![AsUsize(addr)] = AsU8(BitAnd(val, U32(0, \hFF))),
                  ![AsUsize(wrapping_add(addr, U32(0, 1)))] =
                      AsU8(BitAnd(Shr(val, 8), U32(0, \hFF))),
                  ![AsUsize(wrapping_add(addr, U32(0, 2)))] =
                      AsU8(BitAnd(Shr(val, 16), U32(0, \hFF))),
                  ![AsUsize(wrapping_add(addr, U32(0, 3)))] =
                      AsU8(BitAnd(Shr(val, 24), U32(0, \hFF)))]]
        ELSE [ok |-> FALSE, memory |-> m.memory]

get_reg(m, r) ==
    IF r = 0 THEN Zero ELSE m.iregs[r - 1]

\* the slots of iregs that get_reg and set_reg touch for a register number:
\* none for 0, n - 1 otherwise
iregs_index(r) == IF r = 0 THEN {} ELSE {r - 1}

\* a set_reg that clamps the index instead of dropping writes to register 0
set_reg_clamped(m, r, val) ==
    [m EXCEPT !.iregs[IF r = 0 THEN 0 ELSE r - 1] = val]

set_reg(m, r, val) ==
    IF r > 0 THEN [m EXCEPT !.iregs[r - 1] = val] ELSE m

\* The two builds of the crate: with overflow checks (debug) a shift by 32
\* or more panics, without them (release) the amount is taken modulo 32.
Builds == {"debug", "release"}

Val(v) == [panic |-> FALSE, val |-> v]

Panic == [panic |-> TRUE, val |-> Zero]

\* x << y, x >> y and (x as i32) >> y with a u32 amount y
OverShift(y, build) == ~LtU(y, U32(0, 32)) /\ build = "debug"

Amount(y) == y[2] % 32

Bool(b) == IF b THEN U32(0, 1) ELSE Zero

\* the closures handed to op_imm
ImmFn(name, x, y) ==
    CASE name = "ADDI" -> wrapping_add(x, y)
      [] name = "ANDI" -> BitAnd(x, y)
      [] name = "ORI" -> BitOr(x, y)
      [] name = "XORI" -> BitXor(x, y)
      [] name = "SLLI" -> Shl(x, AsUsize(BitAnd(y, U32(0, \b11111))))
      [] name = "SRLI" -> Shr(x, AsUsize(BitAnd(y, U32(0, \b11111))))
      [] name = "SRAI" -> Sar(x, AsUsize(BitAnd(y, U32(0, \b11111))))
      [] name = "SLTI" -> Bool(LtS(x, y))
      [] name = "SLTIU" -> Bool(LtU(x, y))

\* the closures handed to op_reg
RegFn(name, x, y, build) ==
    CASE name = "ADD" -> Val(wrapping_add(x, y))
      [] name = "SUB" -> Val(wrapping_sub(x, y))
      [] name = "AND" -> Val(BitAnd(x, y))
      [] name = "OR" -> Val(BitOr(x, y))
      [] name = "XOR" -> Val(BitXor(x, y))
      [] name = "SLL" -> IF OverShift(y, build) THEN Panic ELSE Val(Shl(x, Amount(y)))
      [] name = "SRL" -> IF OverShift(y, build) THEN Panic ELSE Val(Shr(x, Amount(y)))
      [] name = "SRA" -> IF OverShift(y, build) THEN Panic ELSE Val(Sar(x, Amount(y)))
      [] name = "SLT" -> Val(Bool(LtS(x, y)))
      [] name = "SLTU" -> Val(Bool(LtU(x, y)))

\* branch closures in which BLT compares its operands as unsigned
CondFn_blt_unsigned(name, x, y) ==
    CASE name = "BEQ" -> x = y
      [] name = "BNE" -> x # y
      [] name = "BLT" -> LtU(x, y)
      [] name = "BLTU" -> LtU(x, y)
      [] name = "BGE" -> ~LtS(x, y)
      [] name = "BGEU" -> ~LtU(x, y)

\* the closures handed to branch
CondFn(name, x, y) ==
    CASE name = "BEQ" -> x = y
      [] name = "BNE" -> x # y
      [] name = "BLT" -> LtS(x, y)
      [] name = "BLTU" -> LtU(x, y)
      [] name = "BGE" -> ~LtS(x, y)
      [] name = "BGEU" -> ~LtU(x, y)

ImmOps == {"ADDI", "ANDI", "ORI", "XORI", "SLLI", "SRLI", "SRAI", "SLTI", "SLTIU"}
RegOps == {"ADD", "SUB", "AND", "OR", "XOR", "SLL", "SRL", "SRA", "SLT", "SLTU"}
Branches == {"BEQ", "BNE", "BLT", "BLTU", "BGE", "BGEU"}
Loads == {"LW", "LH", "LHU", "LB", "LBU"}
Stores == {"SW", "SH", "SB"}

\* the outcome of step: the result and the machine it leaves
Out(res, m) == [res |-> res, m |-> m]

op_imm(m, op) ==
    set_reg(m, op.rd, ImmFn(op.name, get_reg(m, op.rs1), op.imm))

\* a branch that never overrides next_pc
branch_never(m, op, next_pc) == next_pc

branch(m, op, next_pc) ==
    IF CondFn(op.name, get_reg(m, op.rs1), get_reg(m, op.rs2))
    THEN wrapping_add(m.pc, op.imm)
    ELSE next_pc

\* i16 as i32 as u32 and i8 as i32 as u32
SignExt16(v) == IF v[2] >= 32768 THEN U32(\hFFFF, v[2]) ELSE v

\* an i8 widened without its sign
SignExt8_unsigned(v) == v

SignExt8(v) == IF v[2] >= 128 THEN U32(\hFFFF, \hFF00 + v[2]) ELSE v

\* a load that commits pc before the access is known to succeed
exec_load_early_pc(m, op, next_pc) ==
    LET addr == wrapping_add(get_reg(m, op.rs1), op.imm)
        l == CASE op.name = "LW" -> load32(m, addr)
               [] op.name \in {"LH", "LHU"} -> load16(m, addr)
               [] op.name \in {"LB", "LBU"} -> load8(m, addr)
        val == CASE op.name = "LH" -> SignExt16(l.val)
                 [] op.name = "LB" -> SignExt8(l.val)
                 [] OTHER -> l.val
    IN  IF ~l.ok THEN Out("MemoryOutOfBounds", [m EXCEPT !.pc = next_pc])
        ELSE Out("Running", [set_reg(m, op.rd, val) EXCEPT !.pc = next_pc])

exec_load(m, op, next_pc) ==
    LET addr == wrapping_add(get_reg(m, op.rs1), op.imm)
        l == CASE op.name = "LW" -> load32(m, addr)
               [] op.name \in {"LH", "LHU"} -> load16(m, addr)
               [] op.name \in {"LB", "LBU"} -> load8(m, addr)
        val == CASE op.name = "LH" -> SignExt16(l.val)
                 [] op.name = "LB" -> SignExt8(l.val)
                 [] OTHER -> l.val
    IN  IF ~l.ok THEN Out("MemoryOutOfBounds", m)
        ELSE Out("Running", [set_reg(m, op.rd, val) EXCEPT !.pc = next_pc])

\* a store arm whose SH writes only the low byte
exec_store_sh_byte(m, op, next_pc) ==
    LET addr == wrapping_add(get_reg(m, op.rs1), op.imm)
        s == CASE op.name = "SW" -> store32(m, addr, get_reg(m, op.rs2))
               [] op.name \in {"SH", "SB"} ->
                    store8(m, addr, U32(0, AsU8(BitAnd(get_reg(m, op.rs2), U32(0, \hFF)))))
    IN  IF ~s.ok THEN Out("MemoryOutOfBounds", m)
        ELSE Out("Running", [m EXCEPT !.memory = s.memory, !.pc = next_pc])

exec_store(m, op, next_pc) ==
    LET addr == wrapping_add(get_reg(m, op.rs1), op.imm)
        s == CASE op.name = "SW" -> store32(m, addr, get_reg(m, op.rs2))
               [] op.name = "SH" ->
                    store16(m, addr, U32(0, AsU16(BitAnd(get_reg(m, op.rs2), U32(0, \hFFFF)))))
               [] op.name = "SB" ->
                    store8(m, addr, U32(0, AsU8(BitAnd(get_reg(m, op.rs2), U32(0, \hFF)))))
    IN  IF ~s.ok THEN Out("MemoryOutOfBounds", m)
        ELSE Out("Running", [m EXCEPT !.memory = s.memory, !.pc = next_pc])

\* a JALR that jumps to rs1 + imm without clearing its low bit
exec_jalr_keep_low_bit(m, op, next_pc) ==
    LET m1 == set_reg(m, op.rd, next_pc)
    IN  Out("Running",
            [m1 EXCEPT !.pc = wrapping_add(get_reg(m1, op.rs1), op.imm)])

exec_jalr(m, op, next_pc) ==
    LET m1 == set_reg(m, op.rd, next_pc)
    IN  Out("Running",
            [m1 EXCEPT !.pc = BitAnd(wrapping_add(get_reg(m1, op.rs1), op.imm),
                                     BitNot(U32(0, 1)))])

\* a JAL that jumps relative to the following instruction
exec_jal_from_next(m, op, next_pc) ==
    Out("Running", [set_reg(m, op.rd, next_pc) EXCEPT !.pc = wrapping_add(next_pc, op.imm)])

exec_jal(m, op, next_pc) ==
    Out("Running", [set_reg(m, op.rd, next_pc) EXCEPT !.pc = wrapping_add(m.pc, op.imm)])

exec_op_reg(m, op, next_pc, build) ==
    LET res == RegFn(op.name, get_reg(m, op.rs1), get_reg(m, op.rs2), build)
    IN  IF res.panic THEN Out("panic", m)
        ELSE Out("Running", [set_reg(m, op.rd, res.val) EXCEPT !.pc = next_pc])

\* the match of step on the decoded instruction, and the commit of next_pc
exec(m, op, next_pc, build) ==
    CASE op.name \in ImmOps -> Out("Running", [op_imm(m, op) EXCEPT !.pc = next_pc])
      [] op.name \in RegOps -> exec_op_reg(m, op, next_pc, build)
      [] op.name = "LUI" -> Out("Running", [set_reg(m, op.rd, op.imm) EXCEPT !.pc = next_pc])
      [] op.name = "AUIPC" ->
            Out("Running", [set_reg(m, op.rd, wrapping_add(op.imm, m.pc)) EXCEPT !.pc = next_pc])
      [] op.name = "JAL" -> exec_jal(m, op, next_pc)
      [] op.name = "JALR" -> exec_jalr(m, op, next_pc)
      [] op.name \in Branches -> Out("Running", [m EXCEPT !.pc = branch(m, op, next_pc)])
      [] op.name \in Loads -> exec_load(m, op, next_pc)
      [] op.name \in Stores -> exec_store(m, op, next_pc)
      [] op.name = "ECALL" -> Out("Syscall", [m EXCEPT !.pc = next_pc])
      [] op.name = "EBREAK" -> Out("Breakpoint", [m EXCEPT !.pc = next_pc])

\* Machine::step
step(m, build) ==
    LET next_pc == wrapping_add(m.pc, U32(0, 4))
        fetch == load32(m, m.pc)
    IN  IF ~fetch.ok THEN Out("MemoryOutOfBounds", m)
        ELSE LET op == decode(fetch.val)
             IN  IF ~op.ok THEN Out(op.name, m)
                 ELSE exec(m, op, next_pc, build)

-----------------------------------------------------------------------------
(* Bounds of the model.                                                     *)

\* the memory size handed to with_memory
MemSize == 8

\* the number of calls a caller makes after setting the machine up
MaxOps == 2

-----------------------------------------------------------------------------
(* The state machine: a caller owning one machine.                          *)

Cur == [pc |-> pc, iregs |-> iregs, memory |-> memory]

NoInst == Err("")

\* a call record: the operation, its address (or register number) and value
\* arguments, its result, the value it returned and, for step, the
\* instruction it decoded
Call(op, a, v, res, ret, i) ==
    [op |-> op, a |-> a, v |-> v, res |-> res, ret |-> ret, inst |-> i]

NoCall == Call("new", Zero, Zero, "Ok", Zero, NoInst)

\* the word at bit fields f7 | f5 | rs1 | f3 | rd | opcode
Enc(f7, f5, rs1, f3, rd, opcode) ==
    U32(f7 * 512 + f5 * 16 + rs1 \div 2,
        (rs1 % 2) * 32768 + f3 * 4096 + rd * 128 + opcode)

\* the register fields <<rd, rs1, rs2>> of the instruction words tried
RegFields ==
    {<<0, 0, 0>>, <<0, 0, 1>>, <<0, 1, 2>>, <<1, 1, 2>>, <<2, 1, 0>>, <<2, 6, 1>>,
     <<3, 1, 1>>}

\* values of bits 31..25 of the instruction words tried
Funct7s == {0, 32, 127}

\* the instruction words tried: every recognized opcode with every funct3,
\* and two words of no recognized opcode
ProgWords ==
    {Enc(f7, r[3], r[2], f3, r[1], o) :
        f7 \in Funct7s, r \in RegFields, f3 \in 0..7, o \in Opcodes}
    \cup {Zero, AllOnes}

\* the values the caller seeds x1 and x2 with
SeedX1 == {U32(0, 5), AllOnes}

SeedX2 == {U32(0, 3), U32(\h8000, 35)}

\* the machine of a caller that has built it, seeded x1 and x2 and stored one
\* instruction word at address 0
Loaded(w, a, b) ==
    LET m0 == with_memory(MemSize)
        m1 == set_reg(set_reg(m0, 1, a), 2, b)
    IN  [m1 EXCEPT !.memory = store32(m1, Zero, w).memory]

Init ==
    \E w \in ProgWords, a \in SeedX1, b \in SeedX2 :
        /\ pc = Loaded(w, a, b).pc
        /\ iregs = Loaded(w, a, b).iregs
        /\ memory = Loaded(w, a, b).memory
        /\ last = Call("store32", Zero, w, "Ok", Zero, NoInst)
        /\ prev = [m |-> set_reg(set_reg(with_memory(MemSize), 1, a), 2, b),
                   last |-> Call("set_reg", U32(0, 2), b, "Ok", Zero, NoInst)]
        /\ nops = 0
        /\ arg = Zero

\* the bookkeeping every call does
Record(c) ==
    /\ last' = c
    /\ prev' = [m |-> Cur, last |-> last]
    /\ nops' = nops + 1
    /\ UNCHANGED arg

Become(m) ==
    /\ pc' = m.pc
    /\ iregs' = m.iregs
    /\ memory' = m.memory

Result(ok) == IF ok THEN "Ok" ELSE "MemoryOutOfBounds"

SetReg(r, v) ==
    /\ nops < MaxOps
    /\ Become(set_reg(Cur, r, v))
    /\ Record(Call("set_reg", U32(0, r), v, "Ok", Zero, NoInst))

\* pc is a public field: the caller assigns it
SetPc(v) ==
    /\ nops < MaxOps
    /\ Become([Cur EXCEPT !.pc = v])
    /\ Record(Call("set_pc", Zero, v, "Ok", Zero, NoInst))

\* store8(a, v as u8): the caller casts the value it holds to the width of the
\* store; the record keeps the value before the cast
Store8(a, v) ==
    /\ nops < MaxOps
    /\ Become([Cur EXCEPT !.memory = store8(Cur, a, U32(0, AsU8(v))).memory])
    /\ Record(Call("store8", a, v, Result(store8(Cur, a, U32(0, AsU8(v))).ok), Zero, NoInst))

\* store16(a, v as u16)
Store16(a, v) ==
    /\ nops < MaxOps
    /\ Become([Cur EXCEPT !.memory = store16(Cur, a, U32(0, AsU16(v))).memory])
    /\ Record(Call("store16", a, v, Result(store16(Cur, a, U32(0, AsU16(v))).ok), Zero, NoInst))

Store32(a, v) ==
    /\ nops < MaxOps
    /\ Become([Cur EXCEPT !.memory = store32(Cur, a, v).memory])
    /\ Record(Call("store32", a, v, Result(store32(Cur, a, v).ok), Zero, NoInst))

Load8(a) ==
    /\ nops < MaxOps
    /\ UNCHANGED <<pc, iregs, memory>>
    /\ Record(Call("load8", a, Zero, Result(load8(Cur, a).ok), load8(Cur, a).val, NoInst))

Load16(a) ==
    /\ nops < MaxOps
    /\ UNCHANGED <<pc, iregs, memory>>
    /\ Record(Call("load16", a, Zero, Result(load16(Cur, a).ok), load16(Cur, a).val, NoInst))

Load32(a) ==
    /\ nops < MaxOps
    /\ UNCHANGED <<pc, iregs, memory>>
    /\ Record(Call("load32", a, Zero, Result(load32(Cur, a).ok), load32(Cur, a).val, NoInst))

\* the word step fetches and the instruction it decodes, for the record
Fetched(m) == load32(m, m.pc)

Decoded(m) == IF Fetched(m).ok THEN decode(Fetched(m).val) ELSE NoInst

Step ==
    /\ nops < MaxOps
    /\ \E build \in Builds :
        /\ Become(step(Cur, build).m)
        /\ Record(Call("step", pc, Fetched(Cur).val, step(Cur, build).res, Zero,
                       Decoded(Cur)))

\* the arguments the caller passes after the set-up
CallRegs == {0, 1}

CallVals == {U32(\h1234, \hABCD)}

CallAddrs == {FromNat(MemSize - 2)}

Next ==
    \/ Step
    \/ \E r \in CallRegs, v \in CallVals : SetReg(r, v)
    \/ \E v \in CallAddrs : SetPc(v)
    \/ \E a \in CallAddrs, v \in CallVals : Store8(a, v)
    \/ \E a \in CallAddrs, v \in CallVals : Store16(a, v)
    \/ \E a \in CallAddrs, v \in CallVals : Store32(a, v)

Spec == Init /\ [][Next]_vars

-----------------------------------------------------------------------------
(* The memory interface on its own: a caller that only loads and stores.    *)

\* the addresses tried: all of memory, one past it, and the top of the
\* address space
MemAddrs ==
    {FromNat(a) : a \in 0..MemSize} \cup {U32(\hFFFF, \hFFFD), U32(\hFFFF, \hFFFF)}

\* the values stored
MemVals == {U32(\h1234, \hABCD), U32(\h80FF, \h7F01)}

MemInit ==
    /\ pc = with_memory(MemSize).pc
    /\ iregs = with_memory(MemSize).iregs
    /\ memory = with_memory(MemSize).memory
    /\ last = NoCall
    /\ prev = [m |-> with_memory(MemSize), last |-> NoCall]
    /\ nops = 0
    /\ arg = Zero

MemNext ==
    \/ \E a \in MemAddrs, v \in MemVals : Store8(a, v)
    \/ \E a \in MemAddrs, v \in MemVals : Store16(a, v)
    \/ \E a \in MemAddrs, v \in MemVals : Store32(a, v)
    \/ \E a \in MemAddrs : Load8(a)
    \/ \E a \in MemAddrs : Load16(a)
    \/ \E a \in MemAddrs : Load32(a)

MemSpec == MemInit /\ [][MemNext]_vars

-----------------------------------------------------------------------------
(* The decoder on its own: a word is drawn and decoded.                     *)

\* the register fields <<rd, rs1, rs2>> of the words decoded
DecodeRegFields == {<<0, 0, 0>>, <<0, 0, 1>>, <<1, 2, 3>>, <<31, 31, 31>>}

\* values of bits 31..25 of the words decoded
DecodeFunct7s == {0, 1, 32, 127}

\* the words decoded: every value of bits 6..0 and of funct3
DecodeWords ==
    {Enc(f7, r[3], r[2], f3, r[1], o) :
        f7 \in DecodeFunct7s, r \in DecodeRegFields, f3 \in 0..7, o \in 0..127}

DecodeInit ==
    \E w \in DecodeWords :
        /\ pc = with_memory(MemSize).pc
        /\ iregs = with_memory(MemSize).iregs
        /\ memory = with_memory(MemSize).memory
        /\ last = Call("input", Zero, w, "", Zero, NoInst)
        /\ prev = [m |-> with_memory(MemSize), last |-> NoCall]
        /\ nops = 0
        /\ arg = Zero

Decode ==
    /\ last.op = "input"
    /\ UNCHANGED <<pc, iregs, memory>>
    /\ Record(Call("decode", Zero, last.v,
                   IF decode(last.v).ok THEN "Ok" ELSE decode(last.v).name,
                   Zero, decode(last.v)))

DecodeNext == Decode

DecodeSpec == DecodeInit /\ [][DecodeNext]_vars

-----------------------------------------------------------------------------
(* The Op and OpImm arms of the decoder and the R format, over every value  *)
(* of funct7 and funct3.                                                    *)

\* the register fields <<rd, rs1, rs2>> of the words decoded
FunctRegFields == {<<0, 0, 0>>, <<1, 2, 31>>}

FunctWords ==
    {Enc(f7, r[3], r[2], f3, r[1], o) :
        f7 \in 0..127, r \in FunctRegFields, f3 \in 0..7,
        o \in {OpcodeOp, OpcodeOpImm}}

FunctInit ==
    \E w \in FunctWords :
        /\ pc = with_memory(MemSize).pc
        /\ iregs = with_memory(MemSize).iregs
        /\ memory = with_memory(MemSize).memory
        /\ last = Call("input", Zero, w, "", Zero, NoInst)
        /\ prev = [m |-> with_memory(MemSize), last |-> NoCall]
        /\ nops = 0
        /\ arg = Zero

\* formats::decode_r called on the word: the record keeps the funct of the
\* halfway-decoded instruction as the returned value, and its operands
DecodeR ==
    /\ last.op = "input"
    /\ UNCHANGED <<pc, iregs, memory>>
    /\ Record(Call("decode_r", Zero, last.v,
                   IF decode_r(last.v).ok THEN "Ok" ELSE decode_r(last.v).err,
                   U32(0, decode_r(last.v).funct),
                   Instr("", decode_r(last.v))))

FunctNext ==
    \/ Decode
    \/ DecodeR

FunctSpec == FunctInit /\ [][FunctNext]_vars

-----------------------------------------------------------------------------
(* Immediates: sign_extend on its own, and the immediates decode assembles. *)

\* the register fields <<rd, rs1, rs2>> of the words tried
ImmRegFields == {<<0, 0, 0>>, <<1, 2, 3>>, <<21, 10, 21>>, <<31, 31, 31>>}

\* values of bits 31..25 of the words tried
ImmFunct7s == {0, 1, 32, 64, 127}

\* the words tried: instruction words of every format, and the arguments of
\* tests::test_sign_extend
ImmWords ==
    {Enc(f7, r[3], r[2], f3, r[1], o) :
        f7 \in ImmFunct7s, r \in ImmRegFields, f3 \in {0, 2, 5}, o \in Opcodes}
    \cup {U32(0, 0), U32(0, \b00011), U32(0, \b10000), U32(0, \b10011)}

ImmInit ==
    \E w \in ImmWords :
        /\ pc = with_memory(MemSize).pc
        /\ iregs = with_memory(MemSize).iregs
        /\ memory = with_memory(MemSize).memory
        /\ last = Call("input", Zero, w, "", Zero, NoInst)
        /\ prev = [m |-> with_memory(MemSize), last |-> NoCall]
        /\ nops = 0
        /\ arg = Zero

\* the low n bits of a word, 1 <= n <= 32: the callers of sign_extend hand it
\* a value that fits its num_bits
LowBits(w, n) == Shr(Shl(w, 32 - n), 32 - n)

\* sign_extend(v, n) called on the low n bits of the word
SignExtend(n) ==
    /\ last.op = "input"
    /\ UNCHANGED <<pc, iregs, memory>>
    /\ Record(Call("sign_extend", U32(0, n), LowBits(last.v, n),
                   IF sign_extend_asserts(n) THEN "Ok" ELSE "panic",
                   sign_extend(LowBits(last.v, n), n), NoInst))

ImmNext ==
    \/ Decode
    \/ \E n \in 1..32 : SignExtend(n)

ImmSpec == ImmInit /\ [][ImmNext]_vars

-----------------------------------------------------------------------------
(* Registers: a caller that builds Reg values from numbers and steps        *)
(* instructions naming the lowest and the highest registers.                *)

\* the numbers handed to Reg::new
RegNums ==
    {U32(0, 0), U32(0, 1), U32(0, 31), U32(0, 32), U32(0, 256 + 5), U32(1, 0), AllOnes}

\* the register fields <<rd, rs1, rs2>> of the instruction words stepped
RegRegFields == {<<0, 0, 0>>, <<1, 31, 0>>, <<31, 1, 31>>, <<31, 31, 31>>}

RegWords ==
    {Enc(0, r[3], r[2], 0, r[1], o) : r \in RegRegFields, o \in Opcodes}

RegInit ==
    \E w \in RegWords :
        /\ pc = Loaded(w, Zero, Zero).pc
        /\ iregs = Loaded(w, Zero, Zero).iregs
        /\ memory = Loaded(w, Zero, Zero).memory
        /\ last = Call("store32", Zero, w, "Ok", Zero, NoInst)
        /\ prev = [m |-> with_memory(MemSize), last |-> NoCall]
        /\ nops = 0
        /\ arg = Zero

\* Reg::new(n), and set_reg(reg, v) with the Reg when there is one; the
\* record keeps n, v and the num() of the Reg
NewReg(n, v) ==
    /\ nops < MaxOps
    /\ Become(IF Reg_new(n).ok THEN set_reg(Cur, Reg_new(n).num, v) ELSE Cur)
    /\ Record(Call("Reg::new", n, v,
                   IF Reg_new(n).ok THEN "Ok" ELSE "BadRegister",
                   U32(0, Reg_new(n).num), NoInst))

RegNext ==
    \/ Step
    \/ \E n \in RegNums, v \in CallVals : NewReg(n, v)

RegSpec == RegInit /\ [][RegNext]_vars

-----------------------------------------------------------------------------
(* examples/fib.rs: the Fibonacci program run to its first Syscall.          *)

\* the memory of the example's machine, standing for its 64 KiB
FibMemSize == 64

\* the largest command-line argument tried
FibMaxN == 48

FIB ==
    <<U32(\h0205, \h0663), U32(\hfff5, \h0793), U32(\h0207, \h8663),
      U32(\h0010, \h0713), U32(\h0000, \h0693), U32(\h00e6, \h8533),
      U32(\hfff7, \h8793), U32(\h0007, \h0693), U32(\h0005, \h0713),
      U32(\hfe07, \h98e3), U32(\h0000, \h0073), U32(\h0000, \h0513),
      U32(\h0000, \h0073), U32(\h0010, \h0513), U32(\h0000, \h0073)>>

\* Reg::a0()
a0 == 10

\* the loop of main that stores FIB[i..] at 4 * i, each store unwrapped
RECURSIVE FibLoad(_, _)
FibLoad(m, i) ==
    IF i >= Len(FIB) THEN [ok |-> TRUE, m |-> m]
    ELSE LET s == store32(m, FromNat(4 * i), FIB[i + 1])
         IN  IF ~s.ok THEN [ok |-> FALSE, m |-> m]
             ELSE FibLoad([m EXCEPT !.memory = s.memory], i + 1)

\* main up to its loop: build the machine, set a0, load the program
FibLoaded(n) == FibLoad(set_reg(with_memory(FibMemSize), a0, FromNat(n)), 0)

FibInit ==
    \E n \in 0..FibMaxN :
        /\ pc = FibLoaded(n).m.pc
        /\ iregs = FibLoaded(n).m.iregs
        /\ memory = FibLoaded(n).m.memory
        /\ last = Call("store32", FromNat(4 * (Len(FIB) - 1)), FIB[Len(FIB)],
                       IF FibLoaded(n).ok THEN "Ok" ELSE "panic", Zero, NoInst)
        /\ prev = [m |-> FibLoaded(n).m, last |-> NoCall]
        /\ nops = 0
        /\ arg = FromNat(n)

\* one turn of the loop of main: it goes on after Running (and Breakpoint),
\* breaks at Syscall and unwraps an error
FibStep ==
    /\ last.res \in {"Ok", "Running", "Breakpoint"}
    /\ \E build \in Builds :
        /\ Become(step(Cur, build).m)
        /\ Record(Call("step", pc, Fetched(Cur).val, step(Cur, build).res, Zero,
                       Decoded(Cur)))

FibNext == FibStep

FibSpec == FibInit /\ [][FibNext]_vars

\* a turn of the loop of main, told by its guard and the call count alone
FibTurn ==
    /\ last.res \in {"Ok", "Running", "Breakpoint"}
    /\ nops' = nops + 1

\* main calls step again as long as its loop has not ended: step always
\* returns, so every turn that is due is taken
FibLiveSpec == FibSpec /\ WF_nops(FibTurn)

-----------------------------------------------------------------------------
(* Claims.                                                                  *)

StepOk == {"Running", "Syscall", "Breakpoint"}

StepErr == {"MemoryOutOfBounds", "BadOpcode", "BadFunct", "BadRegister"}

\* bits 11..7 of an instruction word
RdField(w) == (w[2] \div 128) % 32

\* C1: register 0 always reads 0; set_reg(0, v) changes nothing; a successful
\* step of an instruction whose rd field is 0 leaves every stored register
\* as it was.
C1_HardwiredZero ==
    /\ get_reg(Cur, 0) = Zero
    /\ (last.op = "set_reg" /\ last.a = Zero) => Cur = prev.m
    /\ (last.op = "step" /\ last.res \in StepOk /\ RdField(last.v) = 0)
            => iregs = prev.m.iregs

C1_Witness ==
    /\ last.op = "step"
    /\ last.res = "Running"
    /\ RdField(last.v) = 0
    /\ last.inst.name = "JALR"
    /\ prev.last.op = "set_reg"
    /\ prev.last.a = Zero

\* C2: a step that returns an error leaves pc, every register and every
\* memory byte as they were before the call.
C2_AtomicOnError ==
    (last.op = "step" /\ last.res \in StepErr) => Cur = prev.m

\* a store instruction faulting on its data access
C2_Witness ==
    /\ last.op = "step"
    /\ last.res = "MemoryOutOfBounds"
    /\ last.inst.name = "SW"
    /\ Cur = prev.m

\* a load instruction with a destination faulting on its data access
C2_WitnessLoad ==
    /\ last.op = "step"
    /\ last.res = "MemoryOutOfBounds"
    /\ last.inst.name = "LW"
    /\ last.inst.rd # 0

\* a fetch out of bounds and an undecodable word
C2_WitnessFetch ==
    /\ last.op = "step"
    /\ last.res = "MemoryOutOfBounds"
    /\ ~last.inst.ok
    /\ pc = FromNat(MemSize - 2)

MemCalls == {"load8", "load16", "load32", "store8", "store16", "store32"}

\* the number of bytes a memory call touches
Width(op) ==
    CASE op \in {"load8", "store8"} -> 1
      [] op \in {"load16", "store16"} -> 2
      [] op \in {"load32", "store32"} -> 4

\* a + n - 1 stays within 32 bits
NoOverflow(a, n) == a[1] < Half - 1 \/ a[2] + n - 1 < Half

\* a + n - 1 < len, for an a + n - 1 within 32 bits and a len below 2^16
LastBelow(a, n, len) == a[1] = 0 /\ a[2] + n - 1 < len

\* C3: a load or store of n bytes at addr succeeds exactly when addr + n - 1
\* does not overflow and is below the memory length; otherwise it returns
\* MemoryOutOfBounds and changes no byte.  An access at M - n succeeds, one at
\* M - n + 1 fails, and load32(0xFFFFFFFD) fails.
C3_MemoryBounds ==
    last.op \in MemCalls =>
        LET n == Width(last.op)
            M == MemLen(prev.m)
        IN  /\ last.res \in {"Ok", "MemoryOutOfBounds"}
            /\ (last.res = "Ok") <=>
                    (NoOverflow(last.a, n) /\ LastBelow(last.a, n, M))
            /\ (last.res # "Ok") => memory = prev.m.memory
            /\ (last.a = FromNat(M - n)) => last.res = "Ok"
            /\ (last.a = FromNat(M - n + 1)) => last.res = "MemoryOutOfBounds"
            /\ (last.op = "load32" /\ last.a = U32(\hFFFF, \hFFFD))
                    => last.res = "MemoryOutOfBounds"

\* a store32 whose first bytes are in bounds and whose last is not
C3_Witness ==
    /\ last.op = "store32"
    /\ last.a = FromNat(MemSize - 3)
    /\ last.res = "MemoryOutOfBounds"
    /\ prev.last.op = "load32"
    /\ prev.last.a = FromNat(MemSize - 4)
    /\ prev.last.res = "Ok"

\* the low 8 * n bits of v
Trunc(v, n) ==
    CASE n = 1 -> U32(0, v[2] % 256)
      [] n = 2 -> U32(0, v[2])
      [] n = 4 -> v

\* a load of the width and at the address of the successful store before it
LoadAfterStore(ld, st) ==
    /\ last.op = ld
    /\ prev.last.op = st
    /\ prev.last.res = "Ok"
    /\ last.a = prev.last.a

\* C4: store_s(addr, v) immediately followed by load_s(addr) returns v
\* truncated to its low s bits, for s in {8, 16, 32}.
C4_RoundTrip ==
    \A n \in {1, 2, 4} :
        \A ld \in {"load8", "load16", "load32"}, st \in {"store8", "store16", "store32"} :
            (Width(ld) = n /\ Width(st) = n /\ LoadAfterStore(ld, st))
                => /\ last.res = "Ok"
                   /\ last.ret = Trunc(prev.last.v, n)

C4_Witness ==
    /\ LoadAfterStore("load16", "store16")
    /\ last.a = FromNat(MemSize - 2)
    /\ last.ret = U32(0, \hABCD)

\* byte k of v: (v >> 8k) & 0xFF
ByteOf(v, k) ==
    CASE k = 0 -> v[2] % 256
      [] k = 1 -> v[2] \div 256
      [] k = 2 -> v[1] % 256
      [] k = 3 -> v[1] \div 256

\* C5: after a successful store32(a, v), load8(a + k) returns byte k of v;
\* store16(a, v) puts the low byte at a and the high byte at a + 1; load16 and
\* load32 assemble their result from the bytes in that order.
C5_LittleEndian ==
    /\ \A k \in 0..3 :
          (/\ last.op = "load8"
           /\ prev.last.op = "store32"
           /\ prev.last.res = "Ok"
           /\ last.a = U32(0, prev.last.a[2] + k))
              => /\ last.res = "Ok"
                 /\ last.ret = U32(0, ByteOf(prev.last.v, k))
    /\ (last.op = "store16" /\ last.res = "Ok")
          => /\ memory[last.a[2]] = ByteOf(last.v, 0)
             /\ memory[last.a[2] + 1] = ByteOf(last.v, 1)
    /\ (last.op = "load16" /\ last.res = "Ok")
          => last.ret = U32(0, memory[last.a[2]] + 256 * memory[last.a[2] + 1])
    /\ (last.op = "load32" /\ last.res = "Ok")
          => last.ret = U32(memory[last.a[2] + 2] + 256 * memory[last.a[2] + 3],
                            memory[last.a[2]] + 256 * memory[last.a[2] + 1])

C5_Witness ==
    /\ last.op = "load8"
    /\ prev.last.op = "store32"
    /\ prev.last.v = U32(\h1234, \hABCD)
    /\ last.a = U32(0, prev.last.a[2] + 3)
    /\ last.ret = U32(0, \h12)

\* the variants of Instruction
Supported ==
    ImmOps \cup RegOps \cup Branches \cup Loads \cup Stores
        \cup {"LUI", "AUIPC", "JAL", "JALR", "ECALL", "EBREAK"}

\* C6: decode of any word returns a supported instruction (with register
\* operands in 0..31), BadOpcode or BadFunct; never BadRegister, and it
\* never aborts.
C6_DecoderTotal ==
    last.op = "decode" =>
        \/ /\ last.inst.ok
           /\ last.res = "Ok"
           /\ last.inst.name \in Supported
           /\ {last.inst.rd, last.inst.rs1, last.inst.rs2} \subseteq 0..31
        \/ /\ ~last.inst.ok
           /\ last.res \in {"BadOpcode", "BadFunct"}

\* a word whose register fields are all ones and whose funct is rejected
C6_Witness ==
    /\ last.op = "decode"
    /\ last.res = "BadFunct"
    /\ RdField(last.v) = 31
    /\ last.v[1] = \hFFFF

\* x + y on numbers of three 16-bit digits, most significant first
Add3(x, y) ==
    LET d0 == x[3] + y[3]
        d1 == x[2] + y[2] + d0 \div Half
        d2 == x[1] + y[1] + d1 \div Half
    IN  <<d2, d1 % Half, d0 % Half>>

\* F(k) from a = F(0) and b = F(1): the Fibonacci numbers themselves
RECURSIVE FibFrom(_, _, _)
FibFrom(k, a, b) == IF k = 0 THEN a ELSE FibFrom(k - 1, b, Add3(a, b))

Fibonacci(n) == FibFrom(n, <<0, 0, 0>>, <<0, 0, 1>>)

\* the n-th Fibonacci number modulo 2^32, as a u32
FibonacciLow32(n) == U32(Fibonacci(n)[2], Fibonacci(n)[3])

FibDone == last.op = "step" /\ last.res = "Syscall"

\* no step returns an error, and every step before the Syscall is Running
FibSafe == last.op = "step" => last.res \in {"Running", "Syscall"}

\* C7 as stated: at the Syscall a0 is the n-th Fibonacci number itself.
C7_Original_ExactFibonacci ==
    FibDone =>
        /\ Fibonacci(arg[2])[1] = 0
        /\ get_reg(Cur, a0) = FibonacciLow32(arg[2])

FibResult ==
    FibDone =>
        /\ get_reg(Cur, a0) = FibonacciLow32(arg[2])
        /\ (arg[2] <= 47) => Fibonacci(arg[2])[1] = 0
        /\ (arg[2] = 10) => get_reg(Cur, a0) = U32(0, 55)
        /\ (arg[2] = 0) => get_reg(Cur, a0) = U32(0, 0)
        /\ (arg[2] = 1) => get_reg(Cur, a0) = U32(0, 1)

\* C7 (amended): run from pc = 0 with a0 = n, the FIB program never makes step
\* return an error, step returns Running until the first Syscall, a Syscall
\* is eventually returned, and a0 is then the n-th Fibonacci number modulo
\* 2^32 (the n-th Fibonacci number itself for n <= 47; 55 for n = 10).
C7_Fibonacci == [](FibSafe /\ FibResult) /\ <>FibDone

\* the run for n = 48, whose result no longer fits 32 bits
C7_Witness ==
    /\ FibDone
    /\ arg = U32(0, 48)
    /\ get_reg(Cur, a0) = U32(\h1E8D, \h0A40)

Four == U32(0, 4)

\* a successful step of the instruction named name
Stepped(name) ==
    /\ last.op = "step"
    /\ last.res \in StepOk
    /\ last.inst.name = name

\* C8 as stated: JALR rd, rs1, imm sets rd to the old pc + 4 and pc to
\* ((rs1 before the step) + imm) & ~1, for every rd and rs1, rd = rs1 included.
C8_JalrSemantics ==
    Stepped("JALR") =>
        /\ (last.inst.rd # 0) =>
                get_reg(Cur, last.inst.rd) = wrapping_add(prev.m.pc, Four)
        /\ pc = LET t == wrapping_add(get_reg(prev.m, last.inst.rs1), last.inst.imm)
                IN  U32(t[1], t[2] - (t[2] % 2))

ECALLWord == U32(\h0000, \h0073)

EBREAKWord == U32(\h0010, \h0073)

\* C9: a successful step returns Syscall exactly for ECALL, Breakpoint exactly
\* for EBREAK and Running otherwise; ECALL and EBREAK change no register and no
\* memory byte and advance pc by 4 on that same step.
C9_StepOutcome ==
    last.op = "step" =>
        /\ (last.res \in StepOk) =>
              /\ (last.res = "Syscall") <=> (last.v = ECALLWord)
              /\ (last.res = "Breakpoint") <=> (last.v = EBREAKWord)
              /\ (last.res = "Running") <=> (last.v \notin {ECALLWord, EBREAKWord})
              /\ (last.res = "Syscall") <=> (last.inst.name = "ECALL")
              /\ (last.res = "Breakpoint") <=> (last.inst.name = "EBREAK")
        /\ (last.inst.ok /\ last.v \in {ECALLWord, EBREAKWord}) =>
              /\ last.res \in {"Syscall", "Breakpoint"}
              /\ iregs = prev.m.iregs
              /\ memory = prev.m.memory
              /\ pc = wrapping_add(prev.m.pc, Four)

\* the EBREAK word at pc = 0 yields Breakpoint with pc = 4
C9_Witness ==
    /\ last.op = "step"
    /\ last.v = EBREAKWord
    /\ prev.m.pc = Zero
    /\ last.res = "Breakpoint"
    /\ pc = Four

\* C10: a successful step of anything but JAL, JALR or a taken branch leaves
\* pc = old pc + 4 (mod 2^32); JAL sets pc to old pc + imm (mod 2^32) and rd to
\* old pc + 4; neither pc nor the target need be aligned.
C10_NextPc ==
    (last.op = "step" /\ last.res \in StepOk) =>
        LET name == last.inst.name
            taken == /\ name \in Branches
                     /\ CondFn(name, get_reg(prev.m, last.inst.rs1),
                               get_reg(prev.m, last.inst.rs2))
        IN  /\ (name \notin {"JAL", "JALR"} /\ ~taken)
                    => pc = wrapping_add(prev.m.pc, Four)
            /\ (name = "JAL") =>
                  /\ pc = wrapping_add(prev.m.pc, last.inst.imm)
                  /\ (last.inst.rd # 0) =>
                        get_reg(Cur, last.inst.rd) = wrapping_add(prev.m.pc, Four)

\* an ADDI run at the misaligned pc = 2 that a taken branch led to
C10_Witness ==
    /\ Stepped("ADDI")
    /\ prev.m.pc = U32(0, 2)
    /\ pc = U32(0, 6)
    /\ prev.last.op = "step"
    /\ prev.last.inst.name \in Branches

\* a JAL that links into a register and lands on a target that is not a
\* multiple of 4
C10_WitnessJal ==
    /\ Stepped("JAL")
    /\ pc[2] % 4 = 2
    /\ last.inst.rd # 0

\* a u32 read as an i32, moved up by 2^31 so that signed order is numeric
\* order on the pair
Biased(x) == U32((x[1] + 32768) % Half, x[2])

\* the condition each branch is specified to test
BranchHolds(name, x, y) ==
    CASE name = "BEQ" -> x = y
      [] name = "BNE" -> ~(x = y)
      [] name = "BLT" -> LtU(Biased(x), Biased(y))
      [] name = "BGE" -> ~LtU(Biased(x), Biased(y))
      [] name = "BLTU" -> LtU(x, y)
      [] name = "BGEU" -> ~LtU(x, y)

\* the branch step would have been taken had the instruction been `name`
TakenAs(name) ==
    branch(prev.m, [last.inst EXCEPT !.name = name], AllOnes) # AllOnes

\* C11: a successful step of a branch changes no register and no memory byte;
\* pc becomes old pc + imm if the branch's condition holds (BEQ ==, BNE !=,
\* BLT signed <, BGE signed >=, BLTU unsigned <, BGEU unsigned >=) and
\* old pc + 4 otherwise; of each pair BEQ/BNE, BLT/BGE, BLTU/BGEU exactly one
\* is taken on the same operands.
C11_Branches ==
    (last.op = "step" /\ last.res \in StepOk /\ last.inst.name \in Branches) =>
        LET x == get_reg(prev.m, last.inst.rs1)
            y == get_reg(prev.m, last.inst.rs2)
        IN  /\ last.res = "Running"
            /\ iregs = prev.m.iregs
            /\ memory = prev.m.memory
            /\ pc = IF BranchHolds(last.inst.name, x, y)
                    THEN wrapping_add(prev.m.pc, last.inst.imm)
                    ELSE wrapping_add(prev.m.pc, Four)
            /\ TakenAs("BEQ") # TakenAs("BNE")
            /\ TakenAs("BLT") # TakenAs("BGE")
            /\ TakenAs("BLTU") # TakenAs("BGEU")

\* a BLT taken on -1 < 3, operands whose unsigned order is the opposite
C11_Witness ==
    /\ Stepped("BLT")
    /\ get_reg(prev.m, last.inst.rs1) = AllOnes
    /\ get_reg(prev.m, last.inst.rs2) = U32(0, 3)
    /\ prev.m.pc = Zero
    /\ pc = U32(0, 2048)

\* a BGEU not taken, falling through to pc + 4
C11_WitnessNotTaken ==
    /\ Stepped("BGEU")
    /\ LtU(get_reg(prev.m, last.inst.rs1), get_reg(prev.m, last.inst.rs2))
    /\ pc = wrapping_add(prev.m.pc, Four)
    /\ last.inst.imm # Four

\* C12: after a successful step of JALR, whatever rs1 holds and whatever the
\* immediate is, bit 0 of pc is 0.
C12_JalrLowBitClear ==
    Stepped("JALR") => pc[2] % 2 = 0

\* a JALR whose rs1 + imm is odd: x1 = 5 and imm = 2 give 7, and pc = 6
C12_Witness ==
    /\ Stepped("JALR")
    /\ last.inst.rs1 = 1
    /\ last.inst.rd # 1
    /\ get_reg(prev.m, 1) = U32(0, 5)
    /\ last.inst.imm = U32(0, 2)
    /\ pc = U32(0, 6)

\* the fields of an instruction word: bits 6..0, 14..12 and 31..25
OpcodeOf(w) == w[2] % 128

Funct3Of(w) == (w[2] \div 4096) % 8

Funct7Of(w) == w[1] \div 512

\* what an Op word is specified to decode to
OpTable(f3, f7) ==
    CASE f7 = 0 -> <<"ADD", "SLL", "SLT", "SLTU", "XOR", "SRL", "OR", "AND">>[f3 + 1]
      [] f7 = 32 /\ f3 = 0 -> "SUB"
      [] f7 = 32 /\ f3 = 5 -> "SRA"
      [] OTHER -> "BadFunct"

\* what an OpImm word is specified to decode to, f7 being imm[11:5]
OpImmTable(f3, f7) ==
    CASE f3 = 1 -> IF f7 = 0 THEN "SLLI" ELSE "BadFunct"
      [] f3 = 5 -> IF f7 = 0 THEN "SRLI" ELSE IF f7 = 32 THEN "SRAI" ELSE "BadFunct"
      [] OTHER -> <<"ADDI", "", "SLTI", "SLTIU", "XORI", "", "ORI", "ANDI">>[f3 + 1]

\* C13: an Op word decodes to ADD/SLL/SLT/SLTU/XOR/SRL/OR/AND only with
\* funct7 = 0 and the matching funct3, to SUB/SRA only with funct7 = 0x20 and
\* funct3 = 0/5, and to BadFunct for every other pair; an OpImm word with
\* funct3 = 1 is SLLI only with imm[11:5] = 0, with funct3 = 5 SRLI only with
\* imm[11:5] = 0 and SRAI only with imm[11:5] = 0x20, BadFunct otherwise.
C13_FunctSelection ==
    last.op = "decode" =>
        /\ (OpcodeOf(last.v) = OpcodeOp) =>
                last.inst.name = OpTable(Funct3Of(last.v), Funct7Of(last.v))
        /\ (OpcodeOf(last.v) = OpcodeOpImm) =>
                last.inst.name = OpImmTable(Funct3Of(last.v), Funct7Of(last.v))

\* an SLLI encoding with imm[11:5] = 0x40 is rejected
C13_Witness ==
    /\ last.op = "decode"
    /\ OpcodeOf(last.v) = OpcodeOpImm
    /\ Funct3Of(last.v) = 1
    /\ Funct7Of(last.v) = 64
    /\ last.res = "BadFunct"

\* funct7 = 0x20 selects SRA, and is rejected with funct3 = 1
C13_WitnessOp ==
    /\ last.op = "decode"
    /\ OpcodeOf(last.v) = OpcodeOp
    /\ Funct7Of(last.v) = 32
    /\ \/ Funct3Of(last.v) = 5 /\ last.inst.name = "SRA" /\ last.inst.rs2 = 31
       \/ Funct3Of(last.v) = 1 /\ last.res = "BadFunct"

\* byte k of the machine's memory before the step, counted from address a
ByteAt(a, k) == prev.m.memory[a[2] + k]

\* the n bytes at a, little-endian, as a u32
BytesAt(a, n) ==
    CASE n = 1 -> U32(0, ByteAt(a, 0))
      [] n = 2 -> U32(0, ByteAt(a, 0) + 256 * ByteAt(a, 1))
      [] n = 4 -> U32(ByteAt(a, 2) + 256 * ByteAt(a, 3),
                      ByteAt(a, 0) + 256 * ByteAt(a, 1))

\* the number of bytes each load and store instruction accesses
AccessWidth(name) ==
    CASE name \in {"LB", "LBU", "SB"} -> 1
      [] name \in {"LH", "LHU", "SH"} -> 2
      [] name \in {"LW", "SW"} -> 4

\* a value of n bytes with bit 8n - 1 copied into the bits above it
SignExtended(v, n) ==
    CASE n = 1 -> IF v[2] >= 128 THEN U32(\hFFFF, \hFF00 + v[2]) ELSE v
      [] n = 2 -> IF v[2] >= 32768 THEN U32(\hFFFF, v[2]) ELSE v
      [] n = 4 -> v

\* the value a load instruction is specified to put in rd
LoadedValue(name, a) ==
    IF name \in {"LB", "LH"}
    THEN SignExtended(BytesAt(a, AccessWidth(name)), AccessWidth(name))
    ELSE BytesAt(a, AccessWidth(name))

\* the address rs1 + imm of the load or store just stepped
AccessAddr == wrapping_add(get_reg(prev.m, last.inst.rs1), last.inst.imm)

\* C14: a successful step of LB/LH/LW/LBU/LHU reads 1/2/4/1/2 bytes
\* little-endian at rs1 + imm (mod 2^32) and writes rd with the value, sign-
\* extended for LB and LH and zero-extended for LBU and LHU; memory and every
\* register other than rd are unchanged.
C14_Loads ==
    (last.op = "step" /\ last.res \in StepOk /\ last.inst.name \in Loads) =>
        /\ last.res = "Running"
        /\ AccessAddr[1] = 0
        /\ AccessAddr[2] + AccessWidth(last.inst.name) <= MemLen(prev.m)
        /\ memory = prev.m.memory
        /\ \A r \in 1..31 :
              get_reg(Cur, r) =
                  IF r = last.inst.rd THEN LoadedValue(last.inst.name, AccessAddr)
                  ELSE get_reg(prev.m, r)

\* an LH of the halfword 0xABCD that a store16 put at address 6
C14_Witness ==
    /\ Stepped("LH")
    /\ prev.last.op = "store16"
    /\ AccessAddr = U32(0, 6)
    /\ last.inst.rd = 3
    /\ get_reg(Cur, 3) = U32(\hFFFF, \hABCD)

\* an LB and an LBU of a byte whose bit 7 is set
C14_WitnessByte ==
    /\ last.op = "step"
    /\ last.res = "Running"
    /\ last.inst.name \in {"LB", "LBU"}
    /\ last.inst.rd # 0
    /\ ByteAt(AccessAddr, 0) >= 128
    /\ \/ last.inst.name = "LB" /\ get_reg(Cur, last.inst.rd)[1] = \hFFFF
       \/ last.inst.name = "LBU" /\ get_reg(Cur, last.inst.rd)[1] = 0

\* C15: a successful step of SB/SH/SW writes the low 8/16/32 bits of rs2 to
\* the 1/2/4 bytes starting at rs1 + imm (mod 2^32), leaves every other
\* memory byte and every register as it was, and advances pc by 4.
C15_Stores ==
    (last.op = "step" /\ last.res \in StepOk /\ last.inst.name \in Stores) =>
        LET n == AccessWidth(last.inst.name)
            v == get_reg(prev.m, last.inst.rs2)
        IN  /\ last.res = "Running"
            /\ AccessAddr[1] = 0
            /\ AccessAddr[2] + n <= MemLen(prev.m)
            /\ DOMAIN memory = DOMAIN prev.m.memory
            /\ \A k \in DOMAIN memory :
                  memory[k] =
                      IF AccessAddr[2] <= k /\ k < AccessAddr[2] + n
                      THEN ByteOf(v, k - AccessAddr[2])
                      ELSE prev.m.memory[k]
            /\ iregs = prev.m.iregs
            /\ pc = wrapping_add(prev.m.pc, Four)

\* an SH of 0xFFFFFFFF at address 2: bytes 2 and 3 are written, byte 4 is not
C15_Witness ==
    /\ Stepped("SH")
    /\ get_reg(prev.m, last.inst.rs2) = AllOnes
    /\ AccessAddr = U32(0, 2)
    /\ prev.m.memory[3] = 0
    /\ memory[2] = 255
    /\ memory[3] = 255
    /\ memory[4] = 0

\* an SW that is not aligned to 4 bytes
C15_WitnessWord ==
    /\ Stepped("SW")
    /\ get_reg(prev.m, last.inst.rs2) = AllOnes
    /\ AccessAddr = U32(0, 2)
    /\ memory[5] = 255

\* rs1 shifted by the full value of y, with no reduction of y modulo 32
FullShift(name, x, y) ==
    CASE name = "SLL" -> IF LtU(y, U32(0, 32)) THEN Shl(x, y[2]) ELSE Zero
      [] name = "SRL" -> IF LtU(y, U32(0, 32)) THEN Shr(x, y[2]) ELSE Zero
      [] name = "SRA" -> IF LtU(y, U32(0, 32)) THEN Sar(x, y[2])
                         ELSE IF IsNeg(x) THEN AllOnes ELSE Zero

\* C16 as stated: a successful step of SLL, SRL or SRA writes rd with rs1
\* shifted by the full 32-bit value of rs2, not by rs2 & 0x1F, also when rs2
\* holds 32 or more.
C16_FullShift ==
    (last.op = "step" /\ last.res \in StepOk
        /\ last.inst.name \in {"SLL", "SRL", "SRA"} /\ last.inst.rd # 0) =>
            get_reg(Cur, last.inst.rd) =
                FullShift(last.inst.name, get_reg(prev.m, last.inst.rs1),
                          get_reg(prev.m, last.inst.rs2))

\* what the two builds do with an amount of 32 or more: the checked build
\* aborts the step, the unchecked one shifts by rs2 & 0x1F
C16_Observed ==
    (last.op = "step" /\ last.inst.name \in {"SLL", "SRL", "SRA"}
        /\ ~LtU(get_reg(prev.m, last.inst.rs2), U32(0, 32))) =>
            \/ last.res = "panic" /\ Cur = prev.m
            \/ /\ last.res = "Running"
               /\ (last.inst.rd # 0) =>
                     get_reg(Cur, last.inst.rd) =
                         FullShift(last.inst.name, get_reg(prev.m, last.inst.rs1),
                                   U32(0, get_reg(prev.m, last.inst.rs2)[2] % 32))

\* bits 19..15 and 24..20 of an instruction word
Rs1Field(w) == (w[1] % 16) * 2 + w[2] \div 32768

Rs2Field(w) == (w[1] \div 16) % 32

\* bits 31..20 of an instruction word as a signed 12-bit number, in 32 bits
ImmI(w) ==
    IF w[1] \div 16 >= 2048 THEN U32(\hFFFF, \hF000 + w[1] \div 16)
    ELSE U32(0, w[1] \div 16)

\* C17: every word whose low seven bits are the Jalr opcode decodes to JALR
\* with its I-format operands, whatever its funct3; none is rejected.
C17_JalrAnyFunct3 ==
    (last.op = "decode" /\ OpcodeOf(last.v) = OpcodeJalr) =>
        /\ last.res = "Ok"
        /\ last.inst.ok
        /\ last.inst.name = "JALR"
        /\ last.inst.rd = RdField(last.v)
        /\ last.inst.rs1 = Rs1Field(last.v)
        /\ last.inst.imm = ImmI(last.v)

\* a Jalr word with funct3 = 7 and a negative immediate
C17_Witness ==
    /\ last.op = "decode"
    /\ OpcodeOf(last.v) = OpcodeJalr
    /\ Funct3Of(last.v) = 7
    /\ last.inst.name = "JALR"
    /\ last.inst.rs1 = 31
    /\ last.inst.imm = AllOnes

\* the primary opcodes the specification lists: Load, OpImm, Auipc, Store,
\* Op, Lui, Branch, Jalr, Jal, System
ListedOpcodes ==
    {\b0000011, \b0010011, \b0010111, \b0100011, \b0110011,
     \b0110111, \b1100011, \b1100111, \b1101111, \b1110011}

\* the values of bits 6..0 that Opcode::from_inst accepts
Recognized == {o \in 0..127 : from_inst(U32(0, o)).ok}

\* decode returns BadOpcode exactly for the words whose bits 6..0 are not a
\* listed opcode
BadOpcodeIff ==
    last.op = "decode" =>
        /\ (last.res = "BadOpcode") <=> (OpcodeOf(last.v) \notin ListedOpcodes)
        /\ (last.res = "BadOpcode") <=> (OpcodeOf(last.v) \notin Recognized)

\* C18 as stated: BadOpcode exactly for the unrecognized values of bits 6..0,
\* and 11 recognized primary opcodes.
C18_Original_ElevenOpcodes ==
    last.op = "decode" =>
        /\ BadOpcodeIff
        /\ Cardinality(Recognized) = 11

\* C18 (amended): decode returns BadOpcode if and only if bits 6..0 of the
\* word is not one of the recognized primary opcodes, and there are 10 of
\* them: Load, OpImm, Auipc, Store, Op, Lui, Branch, Jalr, Jal, System.
C18_PrimaryOpcode ==
    last.op = "decode" =>
        /\ BadOpcodeIff
        /\ Recognized = ListedOpcodes
        /\ Cardinality(Recognized) = 10

\* the MiscMem opcode, which the enum leaves out, is rejected
C18_Witness ==
    /\ last.op = "decode"
    /\ OpcodeOf(last.v) = \b0001111
    /\ last.res = "BadOpcode"

\* a recognized opcode whose funct is rejected is not a BadOpcode
C18_WitnessRecognized ==
    /\ last.op = "decode"
    /\ OpcodeOf(last.v) = OpcodeStore
    /\ last.res = "BadFunct"

\* bit k of a u32
BitSet(x, k) == Shr(x, k)[2] % 2 = 1

\* bits k..31 of x are all equal to bit k
UniformFrom(x, k) == Shr(x, k) \in {Zero, Shr(AllOnes, k)}

\* the formats of the primary opcodes that carry an immediate operand
FormatIS == {OpcodeOpImm, OpcodeJalr, OpcodeLoad, OpcodeStore}

FormatU == {OpcodeLui, OpcodeAuipc}

\* C19: sign_extend(v, N) of a v < 2^N keeps the low N bits of v and makes
\* bits N..31 all equal to bit N-1; so a decoded I- or S-format immediate has
\* bits 12..31 equal to bit 11, a B-format immediate bits 13..31 equal to bit
\* 12 and bit 0 = 0, a J-format immediate bits 21..31 equal to bit 20 and
\* bit 0 = 0, and a U-format immediate has its low 12 bits zero.
C19_SignExtension ==
    /\ last.op = "sign_extend" =>
          LET N == last.a[2]
          IN  /\ last.res = "Ok"
              /\ LowBits(last.ret, N) = last.v
              /\ UniformFrom(last.ret, N - 1)
              /\ BitSet(last.ret, 31) <=> BitSet(last.v, N - 1)
    /\ (last.op = "decode" /\ last.inst.ok) =>
          LET o == OpcodeOf(last.v)
              imm == last.inst.imm
          IN  /\ (o \in FormatIS) => UniformFrom(imm, 11)
              /\ (o = OpcodeBranch) => UniformFrom(imm, 12) /\ ~BitSet(imm, 0)
              /\ (o = OpcodeJal) => UniformFrom(imm, 20) /\ ~BitSet(imm, 0)
              /\ (o \in FormatU) => imm[2] % 4096 = 0

\* the last case of tests::test_sign_extend: sign_extend(0b10011, 5) = !0b1100
C19_Witness ==
    /\ last.op = "sign_extend"
    /\ last.a = U32(0, 5)
    /\ last.v = U32(0, \b10011)
    /\ last.ret = U32(\hFFFF, \hFFF3)

\* a branch and a jump with negative immediates, and a store with a positive
\* one whose bit 10 is set
C19_WitnessDecode ==
    /\ last.op = "decode"
    /\ last.inst.ok
    /\ \/ OpcodeOf(last.v) = OpcodeBranch /\ last.inst.imm[1] = \hFFFF
       \/ OpcodeOf(last.v) = OpcodeJal /\ last.inst.imm[1] >= \hFFF0

\* C20 as stated: the funct of decode_r holds funct3 (word bits 14..12) in
\* its bits 2..0 and funct7 (word bits 31..25) in its bits 10..4.
C20_Original_FunctBitsTenToFour ==
    (last.op = "decode_r" /\ last.res = "Ok") =>
        /\ last.ret[2] % 8 = Funct3Of(last.v)
        /\ (last.ret[2] \div 16) % 128 = Funct7Of(last.v)

\* C20 (amended): the funct of decode_r holds funct3 (word bits 14..12) in its
\* bits 2..0 and funct7 (word bits 31..25) in its bits 9..3, and nothing
\* above bit 9.
C20_FunctPacking ==
    (last.op = "decode_r" /\ last.res = "Ok") =>
        /\ last.ret[1] = 0
        /\ last.ret[2] % 8 = Funct3Of(last.v)
        /\ (last.ret[2] \div 8) % 128 = Funct7Of(last.v)
        /\ last.ret[2] \div 1024 = 0

\* the SRA word: funct7 = 0x20 and funct3 = 5 pack to 0b0100000_101
C20_Witness ==
    /\ last.op = "decode_r"
    /\ last.res = "Ok"
    /\ OpcodeOf(last.v) = OpcodeOp
    /\ Funct7Of(last.v) = 32
    /\ Funct3Of(last.v) = 5
    /\ last.ret = U32(0, \b0100000101)
    /\ last.inst.rs2 = 31

\* the slots of the register array
Slots == 0..30

\* a register number whose accesses stay inside the array
SafeReg(r) ==
    /\ r \in 0..31
    /\ iregs_index(r) \subseteq Slots
    /\ iregs_index(r) \subseteq DOMAIN iregs
    /\ (r = 0) <=> (iregs_index(r) = {})
    /\ (r >= 1) => iregs_index(r) = {r - 1}

\* C21: Reg::new(n) succeeds exactly when n < 32 and fails with BadRegister
\* otherwise; every Reg has num() in 0..31, and get_reg and set_reg index the
\* 31-slot register array only with num() - 1 in 0..30 and only for
\* num() >= 1, in every state reached.
C21_RegisterIndexSafety ==
    /\ DOMAIN iregs = Slots
    /\ last.op = "Reg::new" =>
          /\ (last.res = "Ok") <=> (last.a[1] = 0 /\ last.a[2] < 32)
          /\ (last.res # "Ok") => last.res = "BadRegister" /\ Cur = prev.m
          /\ (last.res = "Ok") =>
                /\ last.ret = last.a
                /\ SafeReg(last.ret[2])
                /\ \A i \in Slots :
                      iregs[i] = IF i \in iregs_index(last.ret[2]) THEN last.v
                                 ELSE prev.m.iregs[i]
    /\ (last.op = "step" /\ last.inst.ok) =>
          /\ SafeReg(last.inst.rd)
          /\ SafeReg(last.inst.rs1)
          /\ SafeReg(last.inst.rs2)

\* Reg::new(32) fails, after Reg::new(31) gave the Reg whose set_reg wrote
\* the last slot
C21_Witness ==
    /\ last.op = "Reg::new"
    /\ last.a = U32(0, 32)
    /\ last.res = "BadRegister"
    /\ prev.last.op = "Reg::new"
    /\ prev.last.a = U32(0, 31)
    /\ prev.last.res = "Ok"
    /\ iregs[30] = prev.last.v

\* a step that reads and writes x31
C21_WitnessStep ==
    /\ Stepped("ADDI")
    /\ last.inst.rd = 31
    /\ last.inst.rs1 = 31

\* what step may return
StepReturns ==
    {"Running", "Syscall", "Breakpoint", "BadOpcode", "BadFunct", "MemoryOutOfBounds"}

\* C22 as stated: from every machine state step completes and returns
\* Running, Syscall, Breakpoint, BadOpcode, BadFunct or MemoryOutOfBounds; no
\* instruction and no operand value, SLL/SRL/SRA with rs2 >= 32 and addresses
\* near 2^32 included, makes it abort.
C22_StepTotality ==
    last.op = "step" => last.res \in StepReturns

\* the steps that abort are the register shifts by 32 or more, in the build
\* with overflow checks; every other step returns
C22_Observed ==
    (last.op = "step" /\ last.res \notin StepReturns) =>
        /\ last.res = "panic"
        /\ last.inst.name \in {"SLL", "SRL", "SRA"}
        /\ ~LtU(get_reg(prev.m, last.inst.rs2), U32(0, 32))

====
